---- MODULE Spec2Model ----
(***************************************************************************)
(* State-machine model of the crowdfunding contract                        *)
(* (src/contract/src/lib.rs): the Contract aggregate, its public methods   *)
(* and the transfer promises that add_donation hands to the host.          *)
(*                                                                         *)
(* One action is one whole method call.  A call that panics (unwrap on a   *)
(* failed lookup, arithmetic overflow in a build that checks it) is        *)
(* aborted by the host before the aggregate is written back, so it leaves  *)
(* the contract state as it was and only its result is observed.  The      *)
(* result names the cause of the abort: "NotFound" is the unwrap of a      *)
(* failed get_mut, "ArithmeticOverflow" a checked u128 overflow.           *)
(***************************************************************************)
EXTENDS Integers, Sequences, FiniteSets, TLC

\* ------------------------------------------------------------------ bounds
MaxCalls == 3             \* state-changing calls in a run
U128Bits == 4             \* width the model gives the u128 amounts

\* --------------------------------------------------------------- constants
\* utils::ONE_NEAR, the conversion factor (10^24 in settlement units), scaled
\* to the model's integer width.
ONE_NEAR == 4

RECURSIVE Pow2(_)
Pow2(n) == IF n = 0 THEN 1 ELSE 2 * Pow2(n - 1)

\* Number of values of the (scaled) u128 type: results are taken % U128Modulus.
U128Modulus == Pow2(U128Bits)

\* Identities env::predecessor_account_id() can return.
Accounts == {"bob_near", "carol_near"}

\* Arguments of add_crowdfund: (title, donate, description).
CrowdfundArgs ==
    { <<"Eye surgery", 30, "desc">>, <<"", 0, "">> }

\* Arguments of add_donation: 1 and 2 convert without overflow, the third is the
\* least amount whose conversion overflows.
Amounts == {1, 2, (U128Modulus \div ONE_NEAR) + 1}

\* A Donation field the constructor was given no value for.
NoCampaign == -1

VARIABLES
    owner,            \* Contract.owner
    crowdfunds,       \* Contract.crowdfunds : Vec<Crowdfund>
    donations,        \* Contract.donations  : Vec<Donation>
    promises,         \* transfers handed to the host, in request order
    overflow_checks,  \* whether the build panics on integer overflow (else it wraps)
    accepted,         \* history: the add_donation calls that ran to completion
    added,            \* history: number of add_crowdfund calls that returned
    last              \* the call (or host event) of the last step and its result

vars == <<owner, crowdfunds, donations, promises, overflow_checks, accepted, added, last>>

state == <<owner, crowdfunds, donations>>

\* ------------------------------------------------------------- the models
\* Crowdfund::new(id, title, donate, description)
CrowdfundNew(id, title, donate, description) ==
    [ id |-> id, title |-> title, donate |-> donate, description |-> description,
      total_votes |-> 0, votes |-> <<>>, total_donations |-> 0 ]

\* Donation::new(): the constructor takes no argument, so of the call it can
\* record only what the environment provides, the calling identity.
DonationNew(predecessor) ==
    [ campaign |-> NoCampaign, donor |-> predecessor, amount |-> 0, settlement |-> 0,
      outcome |-> "Pending" ]

\* self.crowdfunds.get_mut(id): Some for a position of the vector, None otherwise.
\* Vec positions are 0-based; the model's sequence holds position id at id + 1.
Found(id) == id \in 0..(Len(crowdfunds) - 1)

Crowdfund(id) == crowdfunds[id + 1]

RECURSIVE SumVotes(_)
SumVotes(n) == IF n = 0 THEN 0 ELSE crowdfunds[n].total_votes + SumVotes(n - 1)

\* State-changing calls made so far, and whether the run may make another.
Calls == Len(crowdfunds) + SumVotes(Len(crowdfunds)) + Len(donations)

MayCall == Calls < MaxCalls

\* The observation of one step.
Call(op, caller, id, amount, result, value, list) ==
    [ op |-> op, caller |-> caller, id |-> id, amount |-> amount,
      result |-> result, value |-> value, list |-> list ]

NoCaller == "none"

\* What the observation holds as the value of a method that returns ().
Unit == -1

\* Ids a caller passes: every valid position, and the first invalid one.
Ids == 0..Len(crowdfunds)

\* -------------------------------------------------------------- operations
Init ==
    /\ owner = "alice_near"
    /\ crowdfunds = <<>>
    /\ donations = <<>>
    /\ promises = <<>>
    /\ overflow_checks \in BOOLEAN
    /\ accepted = <<>>
    /\ added = 0
    /\ last = Call("init", NoCaller, NoCampaign, 0, "Ok", 0, <<>>)

\* add_crowdfund with the vector assigned instead of pushed to.
add_crowdfund_assign(title, donate, description) ==
    /\ MayCall
    /\ LET id == Len(crowdfunds) IN
        /\ crowdfunds' = <<CrowdfundNew(id, title, donate, description)>>
        /\ added' = added + 1
        /\ last' = Call("add_crowdfund", NoCaller, id, 0, "Ok", Unit, <<>>)
    /\ UNCHANGED <<owner, donations, promises, overflow_checks, accepted>>

\* add_crowdfund with identifiers counted from 1.
add_crowdfund_from_one(title, donate, description) ==
    /\ MayCall
    /\ LET id == Len(crowdfunds) + 1 IN
        /\ crowdfunds' = Append(crowdfunds, CrowdfundNew(id, title, donate, description))
        /\ added' = added + 1
        /\ last' = Call("add_crowdfund", NoCaller, id, 0, "Ok", Unit, <<>>)
    /\ UNCHANGED <<owner, donations, promises, overflow_checks, accepted>>

add_crowdfund(title, donate, description) ==
    /\ MayCall
    /\ LET id == Len(crowdfunds) IN
        /\ crowdfunds' = Append(crowdfunds, CrowdfundNew(id, title, donate, description))
        /\ added' = added + 1
        /\ last' = Call("add_crowdfund", NoCaller, id, 0, "Ok", Unit, <<>>)
    /\ UNCHANGED <<owner, donations, promises, overflow_checks, accepted>>

\* list_crowdfunds with the vector moved out of the contract instead of copied.
list_crowdfunds_take ==
    /\ last' = Call("list_crowdfunds", NoCaller, NoCampaign, 0, "Ok", 0, crowdfunds)
    /\ crowdfunds' = <<>>
    /\ UNCHANGED <<owner, donations, promises, overflow_checks, accepted, added>>

list_crowdfunds ==
    /\ last' = Call("list_crowdfunds", NoCaller, NoCampaign, 0, "Ok", 0, crowdfunds)
    /\ UNCHANGED <<owner, crowdfunds, donations, promises, overflow_checks, accepted, added>>

\* Voted with the push of the voter left out.
VotedNoPush(crowdfund, voter) ==
    [ crowdfund EXCEPT !.total_votes = @ + 1 ]

\* Voted with the contract's owner recorded in place of the caller.
VotedAsOwner(crowdfund, voter) ==
    [ crowdfund EXCEPT !.total_votes = @ + 1, !.votes = Append(@, owner) ]

\* Voted with a second vote of the same identity ignored.
VotedOnce(crowdfund, voter) ==
    IF \E k \in 1..Len(crowdfund.votes) : crowdfund.votes[k] = voter
      THEN crowdfund
      ELSE [ crowdfund EXCEPT !.total_votes = @ + 1, !.votes = Append(@, voter) ]

\* The two updates add_vote makes to the campaign it found.
Voted(crowdfund, voter) ==
    [ crowdfund EXCEPT !.total_votes = @ + 1, !.votes = Append(@, voter) ]

\* add_vote with the vote given to the first campaign, whatever the id.
add_vote_first(id, voter) ==
    /\ IF ~Found(id)
         THEN /\ last' = Call("add_vote", voter, id, 0, "NotFound", 0, <<>>)
              /\ UNCHANGED crowdfunds
         ELSE /\ MayCall
              /\ crowdfunds' = [crowdfunds EXCEPT ![1] = Voted(@, voter)]
              /\ last' = Call("add_vote", voter, id, 0, "Ok", Unit, <<>>)
    /\ UNCHANGED <<owner, donations, promises, overflow_checks, accepted, added>>

add_vote(id, voter) ==
    /\ IF ~Found(id)
         THEN /\ last' = Call("add_vote", voter, id, 0, "NotFound", 0, <<>>)
              /\ UNCHANGED crowdfunds
         ELSE /\ MayCall
              /\ crowdfunds' = [crowdfunds EXCEPT ![id + 1] = Voted(@, voter)]
              /\ last' = Call("add_vote", voter, id, 0, "Ok", Unit, <<>>)
    /\ UNCHANGED <<owner, donations, promises, overflow_checks, accepted, added>>

\* u128 arithmetic: the exact result, whether it fits, and what a build that
\* does not check the overflow keeps of it.
Overflows(x) == x >= U128Modulus

Wrapped(x) == x % U128Modulus

\* let transfer_amount: u128 = ONE_NEAR * amount
TransferAmount(amount) == Wrapped(ONE_NEAR * amount)

\* crowdfund.total_donations = crowdfund.total_donations + transfer_amount
Donated(crowdfund, transfer_amount) ==
    [ crowdfund EXCEPT !.total_donations = Wrapped(@ + transfer_amount) ]

\* Promise::new(receiver).transfer(amount), as the host holds it until it resolves.
Transfer(receiver, amount) ==
    [ receiver |-> receiver, amount |-> amount, status |-> "Pending" ]

add_donation(id, amount, donor) ==
    /\ IF overflow_checks /\ Overflows(ONE_NEAR * amount)
         THEN \* line 72 panics: attempt to multiply with overflow
              /\ last' = Call("add_donation", donor, id, amount, "ArithmeticOverflow", 0, <<>>)
              /\ UNCHANGED <<crowdfunds, donations, promises, accepted>>
         ELSE IF ~Found(id)
         THEN \* line 73 panics: unwrap on None
              /\ last' = Call("add_donation", donor, id, amount, "NotFound", 0, <<>>)
              /\ UNCHANGED <<crowdfunds, donations, promises, accepted>>
         ELSE IF overflow_checks
                 /\ Overflows(Crowdfund(id).total_donations + TransferAmount(amount))
         THEN \* line 74 panics: attempt to add with overflow
              /\ last' = Call("add_donation", donor, id, amount, "ArithmeticOverflow", 0, <<>>)
              /\ UNCHANGED <<crowdfunds, donations, promises, accepted>>
         ELSE /\ MayCall
              /\ crowdfunds' = [crowdfunds EXCEPT ![id + 1] = Donated(@, TransferAmount(amount))]
              /\ donations' = Append(donations, DonationNew(donor))
              /\ promises' = Append(promises, Transfer(donor, TransferAmount(amount)))
              /\ accepted' = Append(accepted,
                     [ id |-> id, donor |-> donor, amount |-> amount,
                       transfer_amount |-> TransferAmount(amount),
                       before |-> Crowdfund(id).total_donations ])
              /\ last' = Call("add_donation", donor, id, amount, "Ok", Unit, <<>>)
    /\ UNCHANGED <<owner, overflow_checks, added>>

\* The host resolves transfer i.  add_donation registers no callback on the
\* promise, so no method of the contract runs and its state stays as it is.
transfer_result(i, ok) ==
    /\ i \in 1..Len(promises)
    /\ promises[i].status = "Pending"
    /\ promises' = [promises EXCEPT ![i].status = IF ok THEN "Success" ELSE "Failure"]
    /\ last' = Call("transfer_result", NoCaller, i, 0, IF ok THEN "Ok" ELSE "TransferFailure",
                    0, <<>>)
    /\ UNCHANGED <<owner, crowdfunds, donations, overflow_checks, accepted, added>>

crowdfund_count ==
    /\ last' = Call("crowdfund_count", NoCaller, NoCampaign, 0, "Ok", Len(crowdfunds), <<>>)
    /\ UNCHANGED <<owner, crowdfunds, donations, promises, overflow_checks, accepted, added>>

get_total_donations(id) ==
    /\ last' = IF Found(id)
                 THEN Call("get_total_donations", NoCaller, id, 0, "Ok",
                           Crowdfund(id).total_donations, <<>>)
                 ELSE Call("get_total_donations", NoCaller, id, 0, "NotFound", 0, <<>>)
    /\ UNCHANGED <<owner, crowdfunds, donations, promises, overflow_checks, accepted, added>>

Next ==
    \/ \E a \in CrowdfundArgs : add_crowdfund(a[1], a[2], a[3])
    \/ list_crowdfunds
    \/ \E id \in Ids, voter \in Accounts : add_vote(id, voter)
    \/ \E id \in Ids, amount \in Amounts, donor \in Accounts : add_donation(id, amount, donor)
    \/ \E i \in 1..Len(promises), ok \in BOOLEAN : transfer_result(i, ok)
    \/ crowdfund_count
    \/ \E id \in Ids : get_total_donations(id)

Spec == Init /\ [][Next]_vars

\* The transfer primitive is fair: a transfer the host holds is resolved.  The
\* contract also keeps being called (its reads are always possible), so a run
\* does not end by the callers going away.
FairSpec ==
    /\ Spec
    /\ \A i \in 1..MaxCalls : WF_vars(\E ok \in BOOLEAN : transfer_result(i, ok))
    /\ WF_vars(Next)

\* ------------------------------------------------------------------ claims
\* The exact (unwrapped) settlement amount of an add_donation call.
Settlement(amount) == ONE_NEAR * amount

\* Sum of the settlement amounts of the first n donations that target campaign
\* id and whose record is Settled.
RECURSIVE SettledSum(_, _)
SettledSum(id, n) ==
    IF n = 0 THEN 0
    ELSE SettledSum(id, n - 1)
         + (IF accepted[n].id = id /\ donations[n].outcome = "Settled"
              THEN accepted[n].transfer_amount ELSE 0)

\* C1: in every reachable state each campaign's total_donations is the sum of
\* the settlement amounts of the Settled donations that target it; Pending and
\* Failed donations contribute nothing.
TotalIsSettledSum ==
    \A c \in 1..Len(crowdfunds) :
        crowdfunds[c].total_donations = SettledSum(c - 1, Len(donations))

\* C2: once the transfer of a donation has failed (it being the only donation
\* to its campaign), the campaign's total_donations is what it was before the
\* add_donation call and the Donation record has outcome Failed.
FailedTransferLeavesTotal ==
    \A i \in 1..Len(promises) :
        ( /\ promises[i].status = "Failure"
          /\ \A j \in 1..Len(accepted) : j # i => accepted[j].id # accepted[i].id )
        => /\ Crowdfund(accepted[i].id).total_donations = accepted[i].before
           /\ donations[i].outcome = "Failed"

\* C3: no step decreases a campaign's total_donations, and a step that
\* increases it adds exactly the settlement amount of one donation to that
\* campaign whose outcome becomes Settled in that step.
TotalGrowsBySettlementOnly ==
    [][ \A c \in 1..Len(crowdfunds) :
          LET old == crowdfunds[c].total_donations
              new == crowdfunds'[c].total_donations
          IN  /\ new >= old
              /\ new > old =>
                   \E i \in 1..Len(donations') :
                       /\ accepted'[i].id = c - 1
                       /\ donations'[i].outcome = "Settled"
                       /\ (i > Len(donations) \/ donations[i].outcome # "Settled")
                       /\ new = old + accepted'[i].transfer_amount ]_vars

\* C4: add_vote, add_donation and get_total_donations called with an id outside
\* [0, campaign count) fail with NotFound and leave owner, campaigns and
\* donation history unchanged.
InvalidIdIsNotFound ==
    [][ ( /\ last'.op \in {"add_vote", "add_donation", "get_total_donations"}
          /\ ~Found(last'.id) )
        => (last'.result = "NotFound" /\ UNCHANGED state) ]_vars

\* C5: in every reachable state every campaign's total_votes is the length of
\* its voter sequence.
VotesMatchVoters ==
    \A c \in 1..Len(crowdfunds) :
        crowdfunds[c].total_votes = Len(crowdfunds[c].votes)

\* C5 witness: a campaign that two different identities voted on.
TwoVotesCast ==
    \E c \in 1..Len(crowdfunds) :
        /\ Len(crowdfunds[c].votes) = 2
        /\ crowdfunds[c].votes[1] # crowdfunds[c].votes[2]

\* C6: add_vote on a valid id succeeds and, in that one step, adds 1 to the
\* campaign's total_votes and appends the caller as the last voter; nothing
\* else of the campaigns changes.
AddVoteAtomic ==
    [][ (last'.op = "add_vote" /\ Found(last'.id))
        => /\ last'.result = "Ok"
           /\ crowdfunds' =
                [ crowdfunds EXCEPT
                    ![last'.id + 1].total_votes = @ + 1,
                    ![last'.id + 1].votes = Append(@, last'.caller) ] ]_vars

\* C6 witness: a second vote on a campaign has just been accepted, cast by
\* another identity than the first.
SecondVoteAccepted ==
    /\ last.op = "add_vote"
    /\ last.result = "Ok"
    /\ Len(Crowdfund(last.id).votes) = 2
    /\ Crowdfund(last.id).votes[2] = last.caller
    /\ Crowdfund(last.id).votes[1] # last.caller

\* C7: the campaign count is the number of add_crowdfund calls that returned,
\* crowdfund_count returns it, and no other operation changes it.
CountIsAddsReturned ==
    /\ [](Len(crowdfunds) = added)
    /\ [](last.op = "crowdfund_count" => last.value = added)
    /\ [][ last'.op # "add_crowdfund" => Len(crowdfunds') = Len(crowdfunds) ]_vars

\* C7 witness: crowdfund_count has just returned 2, with a donation made.
CountedTwo ==
    /\ last.op = "crowdfund_count"
    /\ last.value = 2
    /\ Len(donations) = 1

\* C8: add_donation on a valid id whose conversion, or whose addition to
\* total_donations, exceeds the integer range fails with ArithmeticOverflow and
\* leaves the state unchanged.
OverflowIsRejected ==
    [][ ( /\ last'.op = "add_donation"
          /\ Found(last'.id)
          /\ \/ Overflows(Settlement(last'.amount))
             \/ Overflows(Crowdfund(last'.id).total_donations + Settlement(last'.amount)) )
        => (last'.result = "ArithmeticOverflow" /\ UNCHANGED state) ]_vars

\* C9: an add_donation call with a valid id and no overflow appends exactly one
\* record: Pending, with the campaign id, the caller as donor, the requested
\* amount and the settlement amount; a rejected call and any other operation
\* leave the length of the donation history as it is.
DonationRecorded ==
    [][ IF last'.op = "add_donation"
          THEN IF /\ Found(last'.id)
                  /\ ~Overflows(Settlement(last'.amount))
                  /\ ~Overflows(Crowdfund(last'.id).total_donations
                                + Settlement(last'.amount))
                 THEN donations' =
                        Append(donations,
                               [ campaign |-> last'.id, donor |-> last'.caller,
                                 amount |-> last'.amount,
                                 settlement |-> Settlement(last'.amount),
                                 outcome |-> "Pending" ])
                 ELSE donations' = donations
          ELSE Len(donations') = Len(donations) ]_vars

\* C10: under fairness of the transfer primitive every Pending donation record
\* eventually becomes Settled or Failed, and a record that is Settled or Failed
\* keeps its outcome.
PendingIsReconciled ==
    /\ \A i \in 1..MaxCalls :
          (Len(donations) >= i /\ donations[i].outcome = "Pending")
          ~> (Len(donations) >= i /\ donations[i].outcome \in {"Settled", "Failed"})
    /\ [][ \A i \in 1..Len(donations) :
             donations[i].outcome \in {"Settled", "Failed"}
             => donations'[i].outcome = donations[i].outcome ]_vars

\* C11: an add_crowdfund call that succeeds with n campaigns in the registry
\* returns n and appends exactly one campaign: identifier n, the given title,
\* target and description, no votes, no voters, no donations; the n campaigns
\* before it are unchanged.
AddReturnsIdAndAppends ==
    [][ \A a \in CrowdfundArgs :
          (add_crowdfund(a[1], a[2], a[3]) /\ last'.result = "Ok")
          => /\ last'.value = Len(crowdfunds)
             /\ crowdfunds' =
                  Append(crowdfunds,
                         [ id |-> Len(crowdfunds), title |-> a[1], donate |-> a[2],
                           description |-> a[3], total_votes |-> 0, votes |-> <<>>,
                           total_donations |-> 0 ]) ]_vars

\* C12: in every reachable state the campaign at position i has identifier i,
\* so identifiers are pairwise distinct; no step changes the identifier of an
\* existing campaign or removes a campaign, so no identifier is given twice.
IdsArePositions ==
    /\ [](\A i \in 1..Len(crowdfunds) : crowdfunds[i].id = i - 1)
    /\ [](\A i, j \in 1..Len(crowdfunds) :
              crowdfunds[i].id = crowdfunds[j].id => i = j)
    /\ [][ /\ Len(crowdfunds') >= Len(crowdfunds)
           /\ \A i \in 1..Len(crowdfunds) : crowdfunds'[i].id = crowdfunds[i].id ]_vars

\* C12 witness: three campaigns have been created.
ThreeCampaigns ==
    /\ Len(crowdfunds) = 3
    /\ last.op = "add_crowdfund"

\* C13: add_crowdfund with an empty title or an empty description fails with
\* InvalidInput and leaves the contract state unchanged; with a non-empty
\* title and description it succeeds.
EmptyInputIsInvalid ==
    [][ \A a \in CrowdfundArgs :
          add_crowdfund(a[1], a[2], a[3])
          => IF a[1] = "" \/ a[3] = ""
               THEN last'.result = "InvalidInput" /\ UNCHANGED state
               ELSE last'.result = "Ok" ]_vars

\* The spec's scenario on campaign 0: a donation of 1 whose transfer has
\* succeeded, followed or not by a donation of 2 whose transfer has failed,
\* and nothing else donated.
ScenarioFirst ==
    /\ Len(accepted) >= 1
    /\ accepted[1].id = 0
    /\ accepted[1].amount = 1
    /\ promises[1].status = "Success"

ScenarioSecond ==
    /\ Len(accepted) = 2
    /\ accepted[2].id = 0
    /\ accepted[2].amount = 2
    /\ promises[2].status = "Failure"

\* C14: a donation of a whose transfer succeeds makes get_total_donations return
\* its earlier value plus a * ONE_NEAR; in the scenario get_total_donations(0)
\* returns ONE_NEAR after the successful donation of 1 and still ONE_NEAR after
\* the failed donation of 2.
ScenarioTotals ==
    ( /\ last.op = "get_total_donations"
      /\ last.id = 0
      /\ last.result = "Ok"
      /\ ScenarioFirst
      /\ (Len(accepted) = 1 \/ ScenarioSecond) )
    => last.value = ONE_NEAR * 1

\* C15: add_donation looks the id up before it converts the amount: with an
\* invalid id and an amount whose conversion overflows it fails with NotFound,
\* not ArithmeticOverflow, and leaves the state unchanged.
LookupBeforeConversion ==
    [][ ( /\ last'.op = "add_donation"
          /\ ~Found(last'.id)
          /\ Overflows(Settlement(last'.amount)) )
        => (last'.result = "NotFound" /\ UNCHANGED state) ]_vars

\* Number of times voter occurs among the first n entries of votes.
RECURSIVE Occurrences(_, _, _)
Occurrences(votes, voter, n) ==
    IF n = 0 THEN 0
    ELSE Occurrences(votes, voter, n - 1) + (IF votes[n] = voter THEN 1 ELSE 0)

\* C16: add_vote by an identity that has already voted on the campaign
\* succeeds: total_votes grows by 1 and the identity occurs once more in the
\* voter sequence, as its last entry, the earlier entries being kept in order.
DuplicateVoteCounts ==
    [][ ( /\ last'.op = "add_vote"
          /\ Found(last'.id)
          /\ Occurrences(Crowdfund(last'.id).votes, last'.caller,
                         Len(Crowdfund(last'.id).votes)) >= 1 )
        => LET old == Crowdfund(last'.id)
               new == crowdfunds'[last'.id + 1]
           IN  /\ last'.result = "Ok"
               /\ new.total_votes = old.total_votes + 1
               /\ Len(new.votes) = Len(old.votes) + 1
               /\ new.votes[Len(new.votes)] = last'.caller
               /\ \A k \in 1..Len(old.votes) : new.votes[k] = old.votes[k]
               /\ Occurrences(new.votes, last'.caller, Len(new.votes))
                    = Occurrences(old.votes, last'.caller, Len(old.votes)) + 1 ]_vars

\* C16 witness: the same identity has just voted a second time on a campaign.
VotedTwice ==
    /\ last.op = "add_vote"
    /\ last.result = "Ok"
    /\ Crowdfund(last.id).votes = <<last.caller, last.caller>>
    /\ Crowdfund(last.id).total_votes = 2

\* Campaigns other than the one at position c are the same after the step.
OthersUnchanged(c) ==
    /\ Len(crowdfunds') = Len(crowdfunds)
    /\ \A j \in 1..Len(crowdfunds) : j # c => crowdfunds'[j] = crowdfunds[j]

\* No campaign's votes, or no campaign's donation total, change in the step.
VotesUnchanged ==
    \A j \in 1..Len(crowdfunds) :
        /\ crowdfunds'[j].total_votes = crowdfunds[j].total_votes
        /\ crowdfunds'[j].votes = crowdfunds[j].votes

TotalsUnchanged ==
    \A j \in 1..Len(crowdfunds) :
        crowdfunds'[j].total_donations = crowdfunds[j].total_donations

\* C17: add_vote, add_donation and the resolution of a transfer for campaign i
\* leave every other campaign unchanged; add_vote leaves the donation history
\* and every total_donations unchanged; add_donation and a resolution leave
\* every total_votes and voter sequence unchanged; a failed transfer changes at
\* most the outcome of its own Donation record.
FrameOfOperations ==
    [][ /\ (last'.op = "add_vote" /\ Found(last'.id))
           => /\ OthersUnchanged(last'.id + 1)
              /\ donations' = donations
              /\ TotalsUnchanged
        /\ (last'.op = "add_donation" /\ Found(last'.id))
           => /\ OthersUnchanged(last'.id + 1)
              /\ VotesUnchanged
        /\ last'.op = "transfer_result"
           => /\ OthersUnchanged(accepted[last'.id].id + 1)
              /\ VotesUnchanged
        /\ (last'.op = "transfer_result" /\ last'.result = "TransferFailure")
           => /\ owner' = owner
              /\ crowdfunds' = crowdfunds
              /\ Len(donations') = Len(donations)
              /\ \A k \in 1..Len(donations) :
                    donations'[k] = [donations[k] EXCEPT !.outcome = donations'[k].outcome]
              /\ \A k \in 1..Len(donations) :
                    k # last'.id => donations'[k] = donations[k] ]_vars

\* C17 witness: with two campaigns, the transfer of a donation to the second
\* has just failed.
FailedTransferBesideOther ==
    /\ Len(crowdfunds) = 2
    /\ last.op = "transfer_result"
    /\ last.result = "TransferFailure"
    /\ accepted[last.id].id = 1

\* C18: list_crowdfunds, crowdfund_count and get_total_donations on a valid id
\* leave the contract state unchanged; list_crowdfunds returns the campaigns in
\* creation order with their current fields.
ReadsChangeNothing ==
    [][ /\ ( \/ last'.op \in {"list_crowdfunds", "crowdfund_count"}
             \/ (last'.op = "get_total_donations" /\ Found(last'.id)) )
           => /\ last'.result = "Ok"
              /\ UNCHANGED state
        /\ last'.op = "list_crowdfunds"
           => /\ last'.list = crowdfunds
              /\ \A i \in 1..Len(last'.list) : last'.list[i].id = i - 1
        /\ (last'.op = "get_total_donations" /\ Found(last'.id))
           => last'.value = Crowdfund(last'.id).total_donations ]_vars

\* C18 witness: list_crowdfunds has just returned two campaigns, the first of
\* them with a vote.
ListedTwo ==
    /\ last.op = "list_crowdfunds"
    /\ Len(last.list) = 2
    /\ last.list[1].total_votes = 1
    /\ last.list = crowdfunds

\* C19: an add_donation call that is accepted requests exactly one transfer,
\* of amount * ONE_NEAR; a rejected call, and every other operation, requests
\* none.
OneTransferPerDonation ==
    [][ IF last'.op = "add_donation" /\ last'.result = "Ok"
          THEN /\ Len(promises') = Len(promises) + 1
               /\ \A k \in 1..Len(promises) : promises'[k] = promises[k]
               /\ promises'[Len(promises')].amount = Settlement(last'.amount)
               /\ promises'[Len(promises')].status = "Pending"
          ELSE Len(promises') = Len(promises) ]_vars

\* Sum of the settlement amounts of the first n donations that target campaign
\* id and whose transfer succeeded.
RECURSIVE SucceededSum(_, _)
SucceededSum(id, n) ==
    IF n = 0 THEN 0
    ELSE SucceededSum(id, n - 1)
         + (IF accepted[n].id = id /\ promises[n].status = "Success"
              THEN accepted[n].transfer_amount ELSE 0)

\* Every transfer requested so far has resolved.
AllResolved == \A i \in 1..Len(promises) : promises[i].status # "Pending"

\* C20: once every transfer in flight has resolved, in whatever order and with
\* whatever calls in between, each campaign's total_donations is the sum of the
\* settlement amounts of its donations whose transfer succeeded.
FinalTotalIsSucceededSum ==
    AllResolved
    => \A c \in 1..Len(crowdfunds) :
           crowdfunds[c].total_donations = SucceededSum(c - 1, Len(promises))

====
